---------------------------- MODULE Spec2Model ----------------------------
(***************************************************************************)
(* A model of the Nattramn page server (src/deps.ts): route matching,      *)
(* parameter extraction, template assembly (proxy), static resolution,     *)
(* the response finalizer and the request loop (handleRequests).           *)
(*                                                                         *)
(* Strings are TLA+ strings handled character by character (Len, SubSeq,   *)
(* \o).  An optional value (null / undefined in the source) is a tuple of  *)
(* length 0 or 1: None is << >>, Some(v) is <<v>>.                         *)
(***************************************************************************)
EXTENDS Integers, Sequences, FiniteSets, TLC

VARIABLES
  \* ---- the route-matching harness (canHandleRoute / routeParams) ----
  rUrl,       \* the request's URL pathname
  rRoute,     \* the route pattern
  rMatch,     \* Some(result of canHandleRoute), None before the call
  rParams,    \* Some(result of routeParams), None before the call
  \* ---- the server ----
  config,     \* this.config after the constructor
  status,     \* per connection slot: "none", "queued", "active", "stalled", "done"
  cur,        \* the slot of the request the loop holds (0 before the first)
  req,        \* the request the loop holds
  pc,         \* where the loop body is
  params,     \* Some(routeParams handed to the page handler)
  pageData,   \* what the page handler settled with
  filePath,   \* Some(path given to Deno.open)
  asm,        \* Some(what proxy computed: partial flag, pre and post fragments)
  result,     \* Some(PartialResponse returned by handleRequest)
  responds,   \* the req.respond calls made for the held request, in order
  connOpen    \* whether the held request's connection is still writable

vars == <<rUrl, rRoute, rMatch, rParams, config, status, cur, req, pc, params,
          pageData, filePath, asm, result, responds, connOpen>>

routeVars == <<rUrl, rRoute, rMatch, rParams>>

serverVars == <<config, status, cur, req, pc, params, pageData, filePath, asm,
                result, responds, connOpen>>

-----------------------------------------------------------------------------
(* Bounds *)

\* Longest request path after its leading "/" in the route-matching harness.
MaxUrlLen == 3

\* Longest route pattern in the route-matching harness.
MaxRouteLen == 5

\* Number of connections the listener accepts in one run of the server.
MaxRequests == 2

-----------------------------------------------------------------------------
(* Optional values *)

None == << >>

Some(v) == <<v>>

\* JavaScript truthiness of an optional string: null, undefined and '' are falsy.
Truthy(o) == o # None /\ o[1] # ""

\* a || b on optional strings.
OrElse(a, b) == IF Truthy(a) THEN a ELSE b

-----------------------------------------------------------------------------
(* String primitives, as the JavaScript built-ins compute them *)

Char(s, i) == SubSeq(s, i, i)

\* s.slice(i - 1): the text from position i (1-based) to the end.
From(s, i) == SubSeq(s, i, Len(s))

\* s.indexOf(sub) + 1: the first position of sub in s, 0 when absent.
IndexOf(s, sub) ==
  LET hits == {i \in 1..(Len(s) - Len(sub) + 1) : SubSeq(s, i, i + Len(sub) - 1) = sub}
  IN  IF hits = {} THEN 0 ELSE CHOOSE i \in hits : \A j \in hits : i <= j

\* s.includes(sub)
Includes(s, sub) == IndexOf(s, sub) # 0

\* s.split(sep) for a non-empty separator: every piece, in order.
RECURSIVE Split(_, _)
Split(s, sep) ==
  LET i == IndexOf(s, sep)
  IN  IF i = 0 THEN <<s>>
      ELSE <<SubSeq(s, 1, i - 1)>> \o Split(From(s, i + Len(sep)), sep)

\* arr[i - 1]: the element, or undefined past the end.
At(arr, i) == IF i \in 1..Len(arr) THEN Some(arr[i]) ELSE None

\* arr.join(sep) over optional strings: undefined and null join as ''.
RECURSIVE Join(_, _)
Join(arr, sep) ==
  IF arr = << >> THEN ""
  ELSE LET h == IF arr[1] = None THEN "" ELSE arr[1][1]
       IN  IF Len(arr) = 1 THEN h ELSE h \o sep \o Join(Tail(arr), sep)

\* Every string over the characters cs of length at most n.
RECURSIVE Strings(_, _)
Strings(cs, n) ==
  IF n = 0 THEN {""}
  ELSE LET shorter == Strings(cs, n - 1)
       IN  shorter \cup {s \o c : s \in shorter, c \in cs}

-----------------------------------------------------------------------------
(* RouteMatcher *)

\* The request path split on '/'.
RequestSegments(pathname) == Split(pathname, "/")

\* The route pattern split on '/'.
RouteSegments(pattern) == Split(pattern, "/")

\* canHandleRoute with the comparison against the request's length left out.
canHandleRouteNoUrlLength(pathname, pattern) ==
  LET requestURL == RequestSegments(pathname)
      routeURL   == RouteSegments(pattern)
      passed     == {i \in 1..Len(routeURL) :
                       \/ Includes(routeURL[i], ":")
                       \/ Some(routeURL[i]) = At(requestURL, i)}
  IN  Cardinality(passed) = Len(routeURL)

\* canHandleRoute: map every pattern segment to a boolean, filter(Boolean), and
\* compare the number that passed with both lengths.
canHandleRoute(pathname, pattern) ==
  LET requestURL == RequestSegments(pathname)
      routeURL   == RouteSegments(pattern)
      passed     == {i \in 1..Len(routeURL) :
                       \/ Includes(routeURL[i], ":")
                       \/ Some(routeURL[i]) = At(requestURL, i)}
      matches    == Cardinality(passed)
  IN  matches = Len(routeURL) /\ matches = Len(requestURL)

\* curr.includes(':') ? curr.split(':')[1] : undefined
KeyName(curr) == IF Includes(curr, ":") THEN At(Split(curr, ":"), 2) ELSE None

\* { ...acc, [keyname]: value }
Spread(acc, keyname, value) ==
  [k \in DOMAIN acc \cup {keyname} |-> IF k = keyname THEN value ELSE acc[k]]

\* The reduce of routeParams over the first n pattern segments; a record maps each
\* key to the optional request segment requestURL[i].
RECURSIVE ReduceParams(_, _, _)
ReduceParams(routeURL, requestURL, n) ==
  IF n = 0 THEN << >>
  ELSE LET acc     == ReduceParams(routeURL, requestURL, n - 1)
           keyname == KeyName(routeURL[n])
       IN  IF Truthy(keyname)
           THEN Spread(acc, keyname[1], At(requestURL, n))
           ELSE acc

\* routeParams with an earlier segment's key kept when a later one repeats it.
RECURSIVE ReduceParamsFirstWins(_, _, _)
ReduceParamsFirstWins(routeURL, requestURL, n) ==
  IF n = 0 THEN << >>
  ELSE LET acc     == ReduceParamsFirstWins(routeURL, requestURL, n - 1)
           keyname == KeyName(routeURL[n])
       IN  IF Truthy(keyname) /\ keyname[1] \notin DOMAIN acc
           THEN Spread(acc, keyname[1], At(requestURL, n))
           ELSE acc

routeParamsFirstWins(pathname, pattern) ==
  LET routeURL == RouteSegments(pattern)
  IN  ReduceParamsFirstWins(routeURL, RequestSegments(pathname), Len(routeURL))

routeParams(pathname, pattern) ==
  LET routeURL == RouteSegments(pattern)
  IN  ReduceParams(routeURL, RequestSegments(pathname), Len(routeURL))

-----------------------------------------------------------------------------
(* The route-matching harness: canHandleRoute and routeParams on every request  *)
(* path and route pattern within the bounds.                                    *)

\* Characters of request paths: the separator and two literals.  A URL pathname
\* always starts with "/".
UrlChars == {"/", "a", "b"}

\* Characters of route patterns: the separator, the placeholder mark, a literal.
RouteChars == {"/", ":", "a"}

Pathnames == {"/" \o s : s \in Strings(UrlChars, MaxUrlLen)}

RoutePatterns == Strings(RouteChars, MaxRouteLen)

\* handleRequest's page lookup calls canHandleRoute(req, page.route).
MatchRoute ==
  /\ rMatch = None
  /\ rMatch' = Some(canHandleRoute(rUrl, rRoute))
  /\ UNCHANGED <<rUrl, rRoute, rParams>>
  /\ UNCHANGED serverVars

\* proxy calls routeParams(req, page.route) for the page that matched.
ExtractParams ==
  /\ rMatch = Some(TRUE)
  /\ rParams = None
  /\ rParams' = Some(routeParams(rUrl, rRoute))
  /\ UNCHANGED <<rUrl, rRoute, rMatch>>
  /\ UNCHANGED serverVars

RouteNext == MatchRoute \/ ExtractParams

-----------------------------------------------------------------------------
(* Text encodings used by proxy and the finalizer *)

\* Printable ASCII from ' ' (32) to '_' (95), and from 'a' (97) to '~' (126).
AsciiLow == " !\"#$%&'()*+,-./0123456789:;<=>?@ABCDEFGHIJKLMNOPQRSTUVWXYZ[\\]^_"

AsciiHigh == "abcdefghijklmnopqrstuvwxyz{|}~"

UpperCase == "ABCDEFGHIJKLMNOPQRSTUVWXYZ"

LowerCase == "abcdefghijklmnopqrstuvwxyz"

Base64Alphabet == "ABCDEFGHIJKLMNOPQRSTUVWXYZabcdefghijklmnopqrstuvwxyz0123456789+/"

\* The code of every printable ASCII character of the two ranges.
CharCodes ==
  [ c \in {Char(AsciiLow, i) : i \in 1..Len(AsciiLow)}
          \cup {Char(AsciiHigh, i) : i \in 1..Len(AsciiHigh)} |->
      IF Includes(AsciiLow, c) THEN 31 + IndexOf(AsciiLow, c)
      ELSE 96 + IndexOf(AsciiHigh, c) ]

\* c.charCodeAt(0) for a printable ASCII character.
CharCode(c) == CharCodes[c]

\* String.fromCharCode(n) for a printable ASCII code.
FromCharCode(n) == IF n < 96 THEN Char(AsciiLow, n - 31) ELSE Char(AsciiHigh, n - 96)

\* The lower-case letter of every upper-case letter.
LowerCaseOf ==
  [ c \in {Char(UpperCase, i) : i \in 1..Len(UpperCase)} |->
      Char(LowerCase, IndexOf(UpperCase, c)) ]

\* The case folding of the regular expression's i flag, for one character.
ToLower(c) == IF c \in DOMAIN LowerCaseOf THEN LowerCaseOf[c] ELSE c

\* Whether the lower-case text pat stands at position i of s, case ignored.
MatchesAt(s, i, pat) ==
  /\ i + Len(pat) - 1 <= Len(s)
  /\ \A k \in 1..Len(pat) : ToLower(Char(s, i + k - 1)) = Char(pat, k)

\* unescape(encodeURIComponent(s)): the UTF-8 bytes of s, one per ASCII character.
Utf8Bytes(s) == [i \in 1..Len(s) |-> CharCode(Char(s, i))]

\* btoa over bytes: three bytes become four characters, the tail is padded with '='.
RECURSIVE Base64Encode(_)
Base64Encode(bytes) ==
  LET n  == Len(bytes)
      b1 == bytes[1]
      b2 == IF n >= 2 THEN bytes[2] ELSE 0
      b3 == IF n >= 3 THEN bytes[3] ELSE 0
      c1 == Char(Base64Alphabet, (b1 \div 4) + 1)
      c2 == Char(Base64Alphabet, ((b1 % 4) * 16 + (b2 \div 16)) + 1)
      c3 == IF n >= 2 THEN Char(Base64Alphabet, ((b2 % 16) * 4 + (b3 \div 64)) + 1) ELSE "="
      c4 == IF n >= 3 THEN Char(Base64Alphabet, (b3 % 64) + 1) ELSE "="
  IN  IF n = 0 THEN ""
      ELSE c1 \o c2 \o c3 \o c4 \o (IF n > 3 THEN Base64Encode(SubSeq(bytes, 4, n)) ELSE "")

\* JSON.stringify of a string of printable ASCII: quoted, '"' and '\' escaped.
RECURSIVE JsonEscape(_)
JsonEscape(s) ==
  IF s = "" THEN ""
  ELSE LET c == Char(s, 1)
       IN  (IF c = "\"" \/ c = "\\" THEN "\\" \o c ELSE c) \o JsonEscape(From(s, 2))

\* JSON.stringify({ title })
JsonTitle(title) == "{\"title\":\"" \o JsonEscape(title) \o "\"}"

\* String(n) for a natural number.
RECURSIVE StringOf(_)
StringOf(n) ==
  IF n < 10 THEN Char("0123456789", n + 1)
  ELSE StringOf(n \div 10) \o Char("0123456789", (n % 10) + 1)

\* new Sha1().update(body).hex(): the digest algorithm is outside the pipeline; an
\* injective stand-in keeps distinct bodies' checksums distinct.
Sha1Hex(body) == "sha1(" \o body \o ")"

\* gzipEncode / brotliEncode: the codecs are outside the pipeline; injective
\* stand-ins that change the bytes and their number.
gzipEncode(body) == "gzip(" \o body \o ")"

brotliEncode(body) == "br(" \o body \o ")"

-----------------------------------------------------------------------------
(* Configuration *)

\* enum CompressionMethod
Gzip == "gzip"

Brotli == "br"

NoCompression == "none"

\* The constructor: an undefined compression method becomes Brotli.
Constructor(compression, serveStaticDir, pages) ==
  [ server |-> [ compression |-> IF compression = None THEN Brotli ELSE compression[1],
                 serveStatic |-> serveStaticDir ],
    router |-> [ pages |-> pages ] ]

OpenTag == "<nattramn-router>"

CloseTag == "</nattramn-router>"

\* Templates of the configured pages: a full document, one whose part before the
\* router has no <head>, one that begins with the router, one without a router.
FullTemplate ==
  "<html><head><meta></head><body><nattramn-router></nattramn-router></body></html>"

HeadlessTemplate == "<main><nattramn-router></nattramn-router></main>"

RouterFirstTemplate == "<nattramn-router></nattramn-router><footer></footer>"

PlainTemplate == "<p>about</p>"

\* config.router.pages (the handlers are the environment: see HandlerDone).
Pages ==
  << [route |-> "/",          template |-> FullTemplate],
     [route |-> "/users/:id", template |-> HeadlessTemplate],
     [route |-> "/app",       template |-> RouterFirstTemplate],
     [route |-> "/about",     template |-> PlainTemplate] >>

\* The configurations the server is started with.
Configs ==
  { Constructor(c, d, Pages) :
      c \in {None, Some(Gzip), Some(Brotli), Some(NoCompression)},
      d \in {None, Some("public")} }

\* The files under the working directory, by the path Deno.open is given.
Files ==
  [ p \in {"./public/app.js", "./public/style.css", "./server.ts"} |->
      CASE p = "./public/app.js"    -> "console.log(1)"
        [] p = "./public/style.css" -> "body{}"
        [] p = "./server.ts"        -> "new Nattramn(config)" ]

\* What the fetch of the client bundle returns.
ClientBundle == "customElements.define()"

-----------------------------------------------------------------------------
(* Headers *)

HeaderNames ==
  {"content-type", "x-header-updates", "etag", "cache-control",
   "content-encoding", "content-length"}

\* new Headers()
NoHeaders == [h \in HeaderNames |-> None]

\* headers.set(name, value)
SetHeader(headers, name, value) == [headers EXCEPT ![name] = Some(value)]

\* const MEDIA_TYPES
MEDIA_TYPES ==
  [ e \in {".md", ".css", ".html", ".htm", ".json", ".map", ".txt", ".ts", ".tsx",
           ".js", ".jsx", ".gz", ".webp", ".jpg", ".png", ".svg"} |->
      CASE e = ".md"   -> "text/markdown"
        [] e = ".css"  -> "text/css"
        [] e = ".html" -> "text/html"
        [] e = ".htm"  -> "text/html"
        [] e = ".json" -> "application/json"
        [] e = ".map"  -> "application/json"
        [] e = ".txt"  -> "text/plain"
        [] e = ".ts"   -> "text/typescript"
        [] e = ".tsx"  -> "text/tsx"
        [] e = ".js"   -> "application/javascript"
        [] e = ".jsx"  -> "text/jsx"
        [] e = ".gz"   -> "application/gzip"
        [] e = ".webp" -> "image/webp"
        [] e = ".jpg"  -> "image/jpeg"
        [] e = ".png"  -> "image/png"
        [] e = ".svg"  -> "mage/svg+xml" ]

\* s.lastIndexOf(c) + 1
LastIndexOf(s, c) ==
  LET hits == {i \in 1..Len(s) : Char(s, i) = c}
  IN  IF hits = {} THEN 0 ELSE CHOOSE i \in hits : \A j \in hits : j <= i

RECURSIVE TrimTrailingSlashes(_)
TrimTrailingSlashes(path) ==
  IF path # "" /\ Char(path, Len(path)) = "/"
  THEN TrimTrailingSlashes(SubSeq(path, 1, Len(path) - 1))
  ELSE path

\* extname of the standard library's path module (POSIX): the last component's text
\* from its last '.', or '' when it has none, starts with its only '.', or is '..'.
extname(path) ==
  LET trimmed == TrimTrailingSlashes(path)
      base    == From(trimmed, LastIndexOf(trimmed, "/") + 1)
      dot     == LastIndexOf(base, ".")
  IN  IF dot = 0 \/ dot = 1 \/ base = ".." THEN "" ELSE From(base, dot)

getContentType(path) ==
  LET e == extname(path)
  IN  IF e \in DOMAIN MEDIA_TYPES THEN Some(MEDIA_TYPES[e]) ELSE None

-----------------------------------------------------------------------------
(* TemplateSplitter and ResponseAssembler (proxy) *)

\* generatePreContent that ignores the partial flag.
generatePreContentAlways(template, answerWithPartialContent) ==
  IF IndexOf(template, OpenTag) # 0
  THEN Some(Split(template, OpenTag)[1])
  ELSE Some(template)

generatePreContent(template, answerWithPartialContent) ==
  IF answerWithPartialContent THEN None
  ELSE IF IndexOf(template, OpenTag) # 0
       THEN Some(Split(template, OpenTag)[1])
       ELSE Some(template)

generatePostContent(template, answerWithPartialContent) ==
  IF answerWithPartialContent THEN None
  ELSE IF IndexOf(template, CloseTag) # 0
       THEN At(Split(template, CloseTag), 2)
       ELSE Some(template)

\* Boolean(req.headers.get('x-partial-content') ||
\*         reqToURL(req).searchParams.get('partialContent'))
isPartialContent(r) == Truthy(OrElse(r.xPartialContent, r.partialContent))

\* head.match(/<title>(.+)<\/title>/i): Some(match[1]) or None.  The leftmost
\* <title> that a </title> follows on the same line after at least one character;
\* the capture is greedy, so it runs to the last such </title>.
TitleMatch(head) ==
  LET n         == Len(head)
      opens     == {i \in 1..n : MatchesAt(head, i, "<title>")}
      closes(i) == {j \in (i + 8)..n :
                      /\ MatchesAt(head, j, "</title>")
                      /\ \A k \in (i + 7)..(j - 1) : Char(head, k) \notin {"\n", "\r"}}
      starts    == {i \in opens : closes(i) # {}}
  IN  IF starts = {} THEN None
      ELSE LET i == CHOOSE a \in starts : \A b \in starts : a <= b
               j == CHOOSE a \in closes(i) : \A b \in closes(i) : b <= a
           IN  Some(SubSeq(head, i + 7, j - 1))

\* The X-Header-Updates step with the test of preContent left out.
TitleUpdateIgnoringPre(headers, preContent, head) ==
  LET match == TitleMatch(head[1])
  IN  IF Truthy(head) /\ match # None
      THEN SetHeader(headers, "x-header-updates",
                     Base64Encode(Utf8Bytes(JsonTitle(match[1]))))
      ELSE headers

\* if (!preContent && head) { ... headers.set('X-Header-Updates', base64JSON) }
TitleUpdate(headers, preContent, head) ==
  LET match == TitleMatch(head[1])
  IN  IF ~Truthy(preContent) /\ Truthy(head) /\ match # None
      THEN SetHeader(headers, "x-header-updates",
                     Base64Encode(Utf8Bytes(JsonTitle(match[1]))))
      ELSE headers

\* proxy, from the handler's PageData on: the fragments, the body of the
\* req.respond call it makes itself (if any), and the PartialResponse it returns.
proxy(r, page, pd) ==
  LET partialContent == isPartialContent(r)
      preContent     == generatePreContent(page.template, partialContent)
      headers        == TitleUpdate(SetHeader(pd.headers, "content-type", "text/html"),
                                    preContent, pd.head)
      preSplit       == Split(preContent[1], "<head>")
      headParts      == IF Truthy(preContent) /\ Truthy(pd.head)
                        THEN <<At(preSplit, 1), Some("<head>" \o pd.head[1]), At(preSplit, 2)>>
                        ELSE << >>
      earlyRespond   == IF Truthy(preContent) /\ ~Truthy(pd.head) THEN preContent ELSE None
      mainBody       == pd.body
      bodyPart       == IF partialContent THEN mainBody
                        ELSE OpenTag \o mainBody \o CloseTag
      postContent    == generatePostContent(page.template, partialContent)
      postParts      == IF Truthy(postContent) THEN <<postContent>> ELSE << >>
      responseBody   == headParts \o <<Some(bodyPart)>> \o postParts
  IN  [ partialContent |-> partialContent,
        preContent     |-> preContent,
        postContent    |-> postContent,
        earlyRespond   |-> earlyRespond,
        response       |-> [ headers |-> headers,
                             body    |-> Join(responseBody, "\n"),
                             status  |-> 200 ] ]

-----------------------------------------------------------------------------
(* StaticResolver and Dispatcher (handleRequest up to its first await) *)

\* url.pathname.match(this.config.server.serveStatic ?? '') is non-null.  The
\* configured directory names hold no regular-expression metacharacters, so the
\* match is a substring test; the empty pattern matches every path.
StaticPathMatches(pathname, serveStaticDir) ==
  Includes(pathname, IF serveStaticDir = None THEN "" ELSE serveStaticDir[1])

\* this.config.router.pages.find(page => canHandleRoute(req, page.route)): the
\* index of the first page that matches, 0 when none does.
FindPage(pathname, pages) ==
  LET hits == {i \in 1..Len(pages) : canHandleRoute(pathname, pages[i].route)}
  IN  IF hits = {} THEN 0 ELSE CHOOSE i \in hits : \A j \in hits : i <= j

\* handleRequest up to the first await: where it waits next (or that it threw), the
\* path serveStatic opens ('.' + filePath), and the params handed to the handler.
handleRequest(r, cfg) ==
  LET pathname     == r.pathname
      serveStaticDir == cfg.server.serveStatic
      staticPath   == StaticPathMatches(pathname, serveStaticDir)
      hasExtention == extname(pathname) # ""
      page         == FindPage(pathname, cfg.router.pages)
  IN  IF hasExtention
      THEN IF pathname = "/nattramn-client.js"
           THEN [pc |-> "awaitFetch", filePath |-> None, params |-> None]
           ELSE IF staticPath
           THEN [pc |-> "awaitOpen", filePath |-> Some("." \o pathname), params |-> None]
           ELSE IF Truthy(serveStaticDir)
           THEN [pc |-> "awaitOpen",
                 filePath |-> Some("." \o "/" \o serveStaticDir[1] \o pathname),
                 params |-> None]
           ELSE [pc |-> "catch", filePath |-> None, params |-> None]
      ELSE IF page # 0
           THEN [pc |-> "awaitHandler", filePath |-> None,
                 params |-> Some(routeParams(pathname, cfg.router.pages[page].route))]
           ELSE [pc |-> "catch", filePath |-> None, params |-> None]

-----------------------------------------------------------------------------
(* ResponseFinalizer (the try block of handleRequests after handleRequest) *)

\* req.headers.get('accept-encoding')?.includes(token)
AcceptEncodingIncludes(r, token) ==
  r.acceptEncoding # None /\ Includes(r.acceptEncoding[1], token)

\* useGzip without the test of the request's accept-encoding.
useGzipUnnegotiated(cfg, r) == cfg.server.compression = Gzip

useGzip(cfg, r) ==
  cfg.server.compression = Gzip /\ AcceptEncodingIncludes(r, "gzip")

useBrotli(cfg, r) ==
  cfg.server.compression = Brotli /\ AcceptEncodingIncludes(r, "br")

\* From the PartialResponse to the argument of the final req.respond.
Finalize(res, r, cfg) ==
  LET withETag  == SetHeader(res.headers, "etag", Sha1Hex(res.body))
      withCache == IF withETag["cache-control"] = None
                   THEN SetHeader(withETag, "cache-control", "public, max-age=3600")
                   ELSE withETag
      gzHeaders == IF useGzip(cfg, r)
                   THEN SetHeader(withCache, "content-encoding", "gzip") ELSE withCache
      gzBody    == IF useGzip(cfg, r) THEN gzipEncode(res.body) ELSE res.body
      brHeaders == IF useBrotli(cfg, r)
                   THEN SetHeader(gzHeaders, "content-encoding", "br") ELSE gzHeaders
      brBody    == IF useBrotli(cfg, r) THEN brotliEncode(gzBody) ELSE gzBody
  IN  [ body    |-> brBody,
        status  |-> res.status,
        headers |-> SetHeader(brHeaders, "content-length", StringOf(Len(brBody))) ]

-----------------------------------------------------------------------------
(* The inputs of the server: requests and what page handlers settle with *)

\* Paths of page routes: each configured page, a user page, and two that match none.
PagePathnames == {"/", "/users/42", "/app", "/about", "/nope", "/users/42/edit"}

\* Paths with an extension: the client bundle and static assets.
AssetPathnames ==
  {"/nattramn-client.js", "/app.js", "/public/app.js", "/server.ts", "/missing.png"}

\* The accept-encoding header: absent, or a list of codings.
AcceptEncodings == {None, Some("gzip"), Some("br"), Some("gzip, deflate, br")}

\* The x-partial-content header and the partialContent query parameter: absent,
\* present and empty, present with a value.
PartialMarks ==
  { [header |-> None,      query |-> None],
    [header |-> Some("1"), query |-> None],
    [header |-> Some(""),  query |-> None],
    [header |-> None,      query |-> Some("true")],
    [header |-> None,      query |-> Some("")] }

Request(pathname, mark, acceptEncoding) ==
  [ pathname        |-> pathname,
    xPartialContent |-> mark.header,
    partialContent  |-> mark.query,
    acceptEncoding  |-> acceptEncoding ]

Requests ==
  { Request(p, m, a) : p \in PagePathnames, m \in PartialMarks, a \in AcceptEncodings }
    \cup
  { Request(p, [header |-> None, query |-> None], a) :
      p \in AssetPathnames, a \in AcceptEncodings }

\* The value of req before the loop has taken a request.
NoRequest == Request("", [header |-> None, query |-> None], None)

\* pageData.head: absent, a title, no title, an empty title, and an upper-case
\* title whose text holds quotes and is followed by a second title.
Heads ==
  { None,
    Some("<title>Home</title>"),
    Some("<meta name=\"a\">"),
    Some("<title></title>"),
    Some("<TITLE>a \"b\"</TITLE><title>c</title>") }

\* pageData.headers: none, or one header of the handler's own.
HandlerHeaders ==
  { NoHeaders,
    SetHeader(NoHeaders, "content-encoding", "gzip"),
    SetHeader(NoHeaders, "cache-control", "no-store"),
    SetHeader(NoHeaders, "x-header-updates", "e30=") }

\* What a page handler settles with: PageData (every head without headers of the
\* handler's own, and every such header with a head that is absent or has a
\* title), no data, or a rejection.
PageDataOutcomes ==
  { [kind |-> "data", head |-> h, body |-> "<p>123</p>", headers |-> NoHeaders] :
      h \in Heads }
    \cup
  { [kind |-> "data", head |-> h, body |-> "<h1>Hi</h1>", headers |-> hs] :
      h \in {None, Some("<title>Home</title>")}, hs \in HandlerHeaders \ {NoHeaders} }
    \cup
  { [kind |-> k, head |-> None, body |-> "", headers |-> NoHeaders] :
      k \in {"nodata", "throws"} }

-----------------------------------------------------------------------------
(* The server: handleRequests *)

\* handleRequest on every request and configuration of the model, computed once
\* when checking starts: the loop's steps look the value up.
handleRequestOf == [r \in Requests, cfg \in Configs |-> handleRequest(r, cfg)]

\* The page handleRequest found for r: the first whose route matches.
PageOf(router, r) == router.pages[FindPage(r.pathname, router.pages)]

\* proxy on every request that a page serves and every handler outcome, computed
\* once as well.
proxyOf ==
  [ router \in {cfg.router : cfg \in Configs},
    r \in {q \in Requests : FindPage(q.pathname, Pages) # 0},
    pd \in PageDataOutcomes |-> proxy(r, PageOf(router, r), pd) ]

Slots == 1..MaxRequests

Lowest(S) == CHOOSE i \in S : \A j \in S : i <= j

\* One call of req.respond: who made it, what it was given (status defaults to
\* 200, headers to none), and whether the write succeeded.
RespondCall(by, statusCode, headers, body, ok) ==
  [by |-> by, status |-> statusCode, headers |-> headers, body |-> body, ok |-> ok]

\* A loop that does not wait for a stalled request's handling.
LoopAtHeadOrStalled == pc \in {"idle", "stalled"}

\* The for-await loop is at its head, waiting for the listener's next request: the
\* body awaits handleRequest and req.respond, so it is nowhere else meanwhile.
LoopAtHead == pc = "idle"

\* The listener accepts a connection; its request waits for the loop.
Accept ==
  /\ pc # "crashed"
  /\ \E i \in Slots :
       /\ status[i] = "none"
       /\ \A j \in Slots : j < i => status[j] # "none"
       /\ status' = [status EXCEPT ![i] = "queued"]
  /\ UNCHANGED <<config, cur, req, pc, params, pageData, filePath, asm, result,
                 responds, connOpen>>
  /\ UNCHANGED routeVars

\* for await (const req of server): the loop takes the oldest waiting request r and
\* runs handleRequest up to its first await.
TakeRequest(r) ==
  /\ LoopAtHead
  /\ \E i \in Slots :
       /\ status[i] = "queued"
       /\ \A j \in Slots : j < i => status[j] # "queued"
       /\ cur' = i
       /\ status' = [status EXCEPT ![i] = "active"]
  /\ req' = r
  /\ LET entered == handleRequestOf[r, config]
     IN  /\ pc' = entered.pc
         /\ filePath' = entered.filePath
         /\ params' = entered.params
  /\ UNCHANGED <<config, pageData, asm, result, responds, connOpen>>
  /\ UNCHANGED routeVars

\* await fetch(...) and response.arrayBuffer() settle: the bundle, or a rejection.
FetchDone(fetched) ==
  /\ pc = "awaitFetch"
  /\ IF fetched
     THEN /\ result' = Some([ headers |-> SetHeader(NoHeaders, "content-type",
                                                    "application/javascript"),
                              status  |-> 200,
                              body    |-> ClientBundle ])
          /\ pc' = "finalize"
     ELSE /\ result' = None
          /\ pc' = "catch"
  /\ UNCHANGED <<config, status, cur, req, params, pageData, filePath, asm,
                 responds, connOpen>>
  /\ UNCHANGED routeVars

\* serveStatic: Deno.open and Deno.readAll settle: the file's bytes with its
\* content type, or the rejection for a file that is not there.
OpenDone ==
  /\ pc = "awaitOpen"
  /\ IF filePath[1] \in DOMAIN Files
     THEN /\ result' = Some([ headers |-> IF getContentType(filePath[1]) = None
                                          THEN NoHeaders
                                          ELSE SetHeader(NoHeaders, "content-type",
                                                         getContentType(filePath[1])[1]),
                              body    |-> Files[filePath[1]],
                              status  |-> 200 ])
          /\ pc' = "finalize"
     ELSE /\ result' = None
          /\ pc' = "catch"
  /\ UNCHANGED <<config, status, cur, req, params, pageData, filePath, asm,
                 responds, connOpen>>
  /\ UNCHANGED routeVars

\* await page.handler(...) settles with pd and proxy runs to its end.  When proxy
\* itself calls req.respond (preContent without a head), written says whether that
\* write succeeded; a failed write throws out of proxy.
HandlerDone(pd, written) ==
  /\ pc = "awaitHandler"
  /\ pageData' = Some(pd)
  /\ LET p == proxyOf[config.router, req, pd]
     IN  IF pd.kind # "data"
         THEN /\ written
              /\ pc' = "catch"
              /\ UNCHANGED <<asm, result, responds, connOpen>>
         ELSE /\ asm' = Some([ partialContent |-> p.partialContent,
                               preContent     |-> p.preContent,
                               postContent    |-> p.postContent ])
              /\ IF p.earlyRespond # None
                 THEN /\ responds' = Append(responds,
                                            RespondCall("proxy", 200, NoHeaders,
                                                        p.earlyRespond[1], written))
                      /\ connOpen' = written
                      /\ result' = IF written THEN Some(p.response) ELSE None
                      /\ pc' = IF written THEN "finalize" ELSE "catch"
                 ELSE /\ written
                      /\ result' = Some(p.response)
                      /\ pc' = "finalize"
                      /\ UNCHANGED <<responds, connOpen>>
  /\ UNCHANGED <<config, status, cur, req, params, filePath>>
  /\ UNCHANGED routeVars

\* An awaited handler, fetch or file read never settles.
Stall ==
  /\ pc \in {"awaitFetch", "awaitOpen", "awaitHandler"}
  /\ pc' = "stalled"
  /\ status' = [status EXCEPT ![cur] = "stalled"]
  /\ UNCHANGED <<config, cur, req, params, pageData, filePath, asm, result,
                 responds, connOpen>>
  /\ UNCHANGED routeVars

\* The finalizer: ETag, Cache-Control, compression, Content-Length, and
\* await req.respond({ body, status, headers }); a failed write throws.
FinalizeAndRespond(written) ==
  /\ pc = "finalize"
  /\ LET final == Finalize(result[1], req, config)
     IN  responds' = Append(responds,
                            RespondCall("finalizer", final.status, final.headers,
                                        final.body, written))
  /\ connOpen' = written
  /\ IF written
     THEN /\ pc' = "done"
          /\ status' = [status EXCEPT ![cur] = "done"]
     ELSE /\ pc' = "catch"
          /\ UNCHANGED status
  /\ UNCHANGED <<config, cur, req, params, pageData, filePath, asm, result>>
  /\ UNCHANGED routeVars

\* The catch block: req.respond({ status: 404, body: 'Not Found' }), not awaited.
\* The write fails on a connection an earlier failed write closed; its rejection
\* is handled nowhere, which ends the process.
Catch(written) ==
  /\ pc = "catch"
  /\ written => connOpen
  /\ responds' = Append(responds,
                        RespondCall("catch", 404, NoHeaders, "Not Found", written))
  /\ connOpen' = written
  /\ pc' = IF written THEN "done" ELSE "crashed"
  /\ status' = [status EXCEPT ![cur] = "done"]
  /\ UNCHANGED <<config, cur, req, params, pageData, filePath, asm, result>>
  /\ UNCHANGED routeVars

\* The loop body ends and the loop returns to its head; everything that was built
\* for the request is dropped.
NextIteration ==
  /\ pc = "done"
  /\ pc' = "idle"
  /\ req' = NoRequest
  /\ params' = None
  /\ pageData' = None
  /\ filePath' = None
  /\ asm' = None
  /\ result' = None
  /\ responds' = << >>
  /\ connOpen' = TRUE
  /\ UNCHANGED <<config, status, cur>>
  /\ UNCHANGED routeVars

-----------------------------------------------------------------------------
(* Specifications *)

\* The route harness's variables while the server runs, and the server's while the
\* harness runs.
RouteIdle == rUrl = "/" /\ rRoute = "/" /\ rMatch = None /\ rParams = None

ServerIdle ==
  /\ status = [i \in Slots |-> "none"]
  /\ cur = 0
  /\ req = NoRequest
  /\ pc = "idle"
  /\ params = None
  /\ pageData = None
  /\ filePath = None
  /\ asm = None
  /\ result = None
  /\ responds = << >>
  /\ connOpen = TRUE

\* The server after construction, with any of the configurations.
Init ==
  /\ config \in Configs
  /\ ServerIdle
  /\ RouteIdle

\* A step of the loop or the completion of awaited work.
Progress ==
  \/ \E r \in Requests : TakeRequest(r)
  \/ \E fetched \in BOOLEAN : FetchDone(fetched)
  \/ OpenDone
  \/ \E pd \in PageDataOutcomes, written \in BOOLEAN : HandlerDone(pd, written)
  \/ \E written \in BOOLEAN : FinalizeAndRespond(written)
  \/ \E written \in BOOLEAN : Catch(written)
  \/ NextIteration

Next ==
  \/ Accept
  \/ Stall
  \/ Progress

Spec == Init /\ [][Next]_vars

\* The route harness: every request path and route pattern within the bounds.
InitRoute ==
  /\ rUrl \in Pathnames
  /\ rRoute \in RoutePatterns
  /\ rMatch = None
  /\ rParams = None
  /\ config = Constructor(None, None, Pages)
  /\ ServerIdle

SpecRoute == InitRoute /\ [][RouteNext]_vars

\* The loop under fairness.  The event loop runs every continuation that is ready,
\* so a step of the loop or a completion that stays possible is taken.  Accept (a
\* client's choice) and Stall (awaited work that never settles) carry no fairness.
SpecLive == Init /\ [][Next]_vars /\ WF_vars(Progress)

-----------------------------------------------------------------------------
(* Helpers of the properties *)

\* The handling of the held request has completed: the loop body ran to its end
\* (or the process ended in the catch block).
Completed == pc \in {"done", "crashed"}

\* The request is for a static asset: an extensioned path other than the bundle.
IsAssetRequest ==
  /\ req # NoRequest
  /\ extname(req.pathname) # ""
  /\ req.pathname # "/nattramn-client.js"

\* atob: four characters become up to three bytes.
RECURSIVE Base64Decode(_)
Base64Decode(text) ==
  LET v(k) == IF Char(text, k) = "=" THEN 0 ELSE IndexOf(Base64Alphabet, Char(text, k)) - 1
      b1   == v(1) * 4 + (v(2) \div 16)
      b2   == (v(2) % 16) * 16 + (v(3) \div 4)
      b3   == (v(3) % 4) * 64 + v(4)
      here == IF Char(text, 3) = "=" THEN <<b1>>
              ELSE IF Char(text, 4) = "=" THEN <<b1, b2>>
              ELSE <<b1, b2, b3>>
  IN  IF text = "" THEN << >> ELSE here \o Base64Decode(From(text, 5))

\* The text of a sequence of ASCII bytes.
RECURSIVE TextOf(_)
TextOf(bytes) ==
  IF bytes = << >> THEN "" ELSE FromCharCode(bytes[1]) \o TextOf(Tail(bytes))

\* The string a JSON string literal's inside denotes: \x stands for x.
RECURSIVE JsonUnescape(_)
JsonUnescape(s) ==
  IF s = "" THEN ""
  ELSE IF Char(s, 1) = "\\" THEN Char(s, 2) \o JsonUnescape(From(s, 3))
  ELSE Char(s, 1) \o JsonUnescape(From(s, 2))

\* JSON.parse(text).title for a text of the form {"title":"..."}; None otherwise.
ParsedTitle(text) ==
  LET prefix == "{\"title\":\""
      suffix == "\"}"
      n      == Len(text)
  IN  IF /\ n >= Len(prefix) + Len(suffix)
         /\ SubSeq(text, 1, Len(prefix)) = prefix
         /\ SubSeq(text, n - 1, n) = suffix
      THEN Some(JsonUnescape(SubSeq(text, Len(prefix) + 1, n - 2)))
      ELSE None

\* The text after a placeholder segment's first colon.
AfterColon(segment) == From(segment, IndexOf(segment, ":") + 1)

\* A placeholder segment's name: the text between its first colon and its next
\* colon, or the end of the segment.
PlaceholderName(segment) ==
  LET rest == AfterColon(segment)
      stop == IndexOf(rest, ":")
  IN  IF stop = 0 THEN rest ELSE SubSeq(rest, 1, stop - 1)

-----------------------------------------------------------------------------
(* Route matching and parameter extraction (checked under SpecRoute) *)

\* C1: canHandleRoute returns true exactly when the request path and the route
\* pattern, both split on '/', have the same number of segments and every pattern
\* segment without ':' equals the request segment at its index; a request with
\* more or fewer segments than the pattern never matches, whatever the pattern's
\* placeholders.
C1_MatchIsPositional ==
  rMatch # None =>
    LET request == RequestSegments(rUrl)
        pattern == RouteSegments(rRoute)
    IN  rMatch[1] =
          ( /\ Len(request) = Len(pattern)
            /\ \A i \in 1..Len(pattern) :
                 ~Includes(pattern[i], ":") => pattern[i] = request[i] )

\* C1 witness: a pattern with a literal and a placeholder segment has matched a
\* request of as many segments.
C1_Witness ==
  /\ rMatch = Some(TRUE)
  /\ rUrl = "/a/b"
  /\ rRoute = "/a/:a"

\* C2 as stated: for a pattern that matches, the keys of routeParams are exactly the
\* texts after the colon of the pattern's segments that contain one, and each maps
\* to the request segment at the index of its pattern segment.
C2_Original ==
  rParams # None =>
    LET request      == RequestSegments(rUrl)
        pattern      == RouteSegments(rRoute)
        placeholders == {i \in 1..Len(pattern) : Includes(pattern[i], ":")}
    IN  /\ DOMAIN rParams[1] = {AfterColon(pattern[i]) : i \in placeholders}
        /\ \A i \in placeholders :
             rParams[1][AfterColon(pattern[i])] = Some(request[i])

\* C2 amended: for a pattern that matches, the keys of routeParams are exactly the
\* non-empty placeholder names, a name being the text between a segment's first
\* colon and its next colon (or its end); each key maps to the request segment at
\* the index of the last pattern segment that declares it; segments without a
\* colon, or with an empty name, contribute no key.
C2_ParamsByName ==
  rParams # None =>
    LET request      == RequestSegments(rUrl)
        pattern      == RouteSegments(rRoute)
        placeholders == {i \in 1..Len(pattern) : Includes(pattern[i], ":")}
        named        == {i \in placeholders : PlaceholderName(pattern[i]) # ""}
        last(k)      == CHOOSE i \in named :
                          /\ PlaceholderName(pattern[i]) = k
                          /\ \A j \in named : PlaceholderName(pattern[j]) = k => j <= i
    IN  /\ DOMAIN rParams[1] = {PlaceholderName(pattern[i]) : i \in named}
        /\ \A k \in DOMAIN rParams[1] : rParams[1][k] = Some(request[last(k)])

\* C2 witness: two placeholder segments declare the same name, and the extracted
\* value is the request segment under the second.
C2_Witness ==
  /\ rParams # None
  /\ rUrl = "/b"
  /\ rRoute = ":a/:a"
  /\ rParams[1]["a"] = Some("b")

-----------------------------------------------------------------------------
(* Static resolution and the not-found outcome (checked under Spec) *)

\* C3: for an extensioned request path that is not the client bundle: when a static
\* prefix is configured and its pattern matches the path, the file served is the one
\* at the URL path; when a prefix is configured and does not match, the file at
\* '/<prefix><urlPath>'; when no prefix is configured, no file is opened and the
\* request is treated as not found.
C3_StaticResolution ==
  IsAssetRequest =>
    LET prefix == config.server.serveStatic
    IN  IF prefix # None /\ Includes(req.pathname, prefix[1])
        THEN filePath = Some("." \o req.pathname)
        ELSE IF prefix # None
        THEN filePath = Some("." \o "/" \o prefix[1] \o req.pathname)
        ELSE filePath = None /\ result = None /\ pc \in {"catch", "done", "crashed"}

\* Every req.respond call made for the held request was written.
AllWritten == \A k \in 1..Len(responds) : responds[k].ok

\* The cases C5 lists: no configured page matches, static resolution does not
\* apply, the handler returned no data, the static file cannot be opened, or the
\* handler raised an exception.
NotFoundCase ==
  /\ req # NoRequest
  /\ \/ extname(req.pathname) = "" /\ FindPage(req.pathname, config.router.pages) = 0
     \/ IsAssetRequest /\ config.server.serveStatic = None
     \/ pageData # None /\ pageData[1].kind \in {"nodata", "throws"}
     \/ filePath # None /\ filePath[1] \notin DOMAIN Files

\* C5: in every not-found case the client receives status 404 with the body
\* 'Not Found', and no 200 response with page or file content is sent.  (Stated for
\* handlings in which every write to the connection succeeded.)
C5_UniformNotFound ==
  (pc = "done" /\ AllWritten /\ NotFoundCase) =>
    /\ \E k \in 1..Len(responds) :
         responds[k].status = 404 /\ responds[k].body = "Not Found"
    /\ \A k \in 1..Len(responds) : responds[k].status # 200

-----------------------------------------------------------------------------
(* The responses of one request (checked under Spec) *)

\* C8: for a non-partial page request whose pre-fragment is non-null and whose
\* handler returns no head, the response is only the pre-fragment: nothing with the
\* body fragment or the post-fragment is sent after it.
C8_HeadAbsentShortCircuit ==
  ( /\ pc = "done"
    /\ asm # None
    /\ ~asm[1].partialContent
    /\ asm[1].preContent # None
    /\ pageData[1].head = None ) =>
      /\ Len(responds) = 1
      /\ responds[1].body = asm[1].preContent[1]

\* C10: every request whose handling completes is responded to exactly once:
\* req.respond is called once, never twice and never not at all, also when a
\* respond call fails.
C10_RespondedExactlyOnce == Completed => Len(responds) = 1

-----------------------------------------------------------------------------
(* Compression negotiation (checked under Spec) *)

\* The req.respond calls the finalizer made for the held request.
FinalizerCalls == {k \in 1..Len(responds) : responds[k].by = "finalizer"}

\* The configured method is m and the request's accept-encoding contains token.
Negotiated(m, token) ==
  /\ config.server.compression = m
  /\ req.acceptEncoding # None
  /\ Includes(req.acceptEncoding[1], token)

\* C4 as stated: a finalized response has Content-Encoding 'gzip' (and the gzip
\* output as its body) only if the method is gzip and accept-encoding contains
\* 'gzip', 'br' only if the method is brotli and accept-encoding contains 'br', and
\* with the method 'none' it has no Content-Encoding header, whatever the page
\* handler returned.
C4_Original ==
  \A k \in FinalizerCalls :
    LET encoding == responds[k].headers["content-encoding"]
    IN  /\ encoding = Some("gzip") =>
             Negotiated(Gzip, "gzip") /\ responds[k].body = gzipEncode(result[1].body)
        /\ encoding = Some("br") =>
             Negotiated(Brotli, "br") /\ responds[k].body = brotliEncode(result[1].body)
        /\ config.server.compression = NoCompression => encoding = None

\* C4 amended: the finalizer compresses with gzip and sets Content-Encoding 'gzip'
\* exactly when the method is gzip and accept-encoding contains 'gzip', with brotli
\* and 'br' exactly when the method is brotli and accept-encoding contains 'br',
\* never both; otherwise it leaves the body and the Content-Encoding header as
\* handleRequest returned them, so the response carries a Content-Encoding header
\* only if the page handler's own headers set one.
C4_Negotiation ==
  \A k \in FinalizerCalls :
    LET encoding == responds[k].headers["content-encoding"]
        gz       == Negotiated(Gzip, "gzip")
        br       == Negotiated(Brotli, "br")
        own      == IF pageData # None
                    THEN pageData[1].headers["content-encoding"] ELSE None
    IN  /\ ~(gz /\ br)
        /\ gz => encoding = Some("gzip") /\ responds[k].body = gzipEncode(result[1].body)
        /\ br => encoding = Some("br") /\ responds[k].body = brotliEncode(result[1].body)
        /\ (~gz /\ ~br) => encoding = own /\ responds[k].body = result[1].body

\* C4 witness: with the method gzip and an accept-encoding that lists gzip, a page
\* was sent gzip-encoded.
C4_Witness ==
  /\ pc = "done"
  /\ config.server.compression = Gzip
  /\ req.acceptEncoding = Some("gzip, deflate, br")
  /\ req.pathname = "/"
  /\ \E k \in FinalizerCalls :
       /\ responds[k].ok
       /\ responds[k].headers["content-encoding"] = Some("gzip")
       /\ responds[k].body = gzipEncode(result[1].body)

-----------------------------------------------------------------------------
(* Partial-content mode and the title update (checked under Spec) *)

\* C6 as stated: whenever the request carries a truthy x-partial-content header or
\* a partialContent query parameter, both template fragments are null and the
\* assembled body is exactly pageData.body.
C6_Original ==
  (asm # None /\ (Truthy(req.xPartialContent) \/ req.partialContent # None)) =>
    /\ asm[1].preContent = None
    /\ asm[1].postContent = None
    /\ result # None
    /\ result[1].body = pageData[1].body

\* C6 amended: whenever the request carries a truthy x-partial-content header or a
\* partialContent query parameter with a non-empty value, both template fragments
\* are null and the assembled body is exactly pageData.body: no text of the
\* template and no router marker tag is added to it.
C6_PartialContent ==
  (asm # None /\ (Truthy(req.xPartialContent) \/ Truthy(req.partialContent))) =>
    /\ asm[1].preContent = None
    /\ asm[1].postContent = None
    /\ result # None
    /\ result[1].body = pageData[1].body
    /\ ~Includes(result[1].body, OpenTag)
    /\ ~Includes(result[1].body, CloseTag)

\* C6 witness: a request for the full-document page with ?partialContent=true was
\* assembled to the handler's body alone.
C6_Witness ==
  /\ asm # None
  /\ req.pathname = "/"
  /\ req.partialContent = Some("true")
  /\ result # None
  /\ result[1].body = "<p>123</p>"

\* C7 as stated: a page response carries X-Header-Updates if and only if the
\* request is in partial-content mode and pageData.head contains a title tag; the
\* value then base64-decodes to the JSON object {"title": <title text>}; a full
\* page response never carries it.
C7_Original ==
  (asm # None /\ result # None) =>
    LET update == result[1].headers["x-header-updates"]
        head   == pageData[1].head
        title  == IF Truthy(head) THEN TitleMatch(head[1]) ELSE None
    IN  /\ (update # None) <=> (asm[1].partialContent /\ title # None)
        /\ update # None => ParsedTitle(TextOf(Base64Decode(update[1]))) = title
        /\ ~asm[1].partialContent => update = None

\* C7 amended: proxy sets X-Header-Updates if and only if the pre-fragment is null
\* or empty (partial-content mode, or a full response whose template begins with
\* the open marker) and pageData.head contains <title>text</title> with a non-empty
\* text on one line; the value then base64-decodes to the JSON object
\* {"title": text}.  Otherwise the response carries X-Header-Updates only if the
\* handler's own headers hold it, with the handler's value.
C7_TitleUpdate ==
  (asm # None /\ result # None) =>
    LET update == result[1].headers["x-header-updates"]
        head   == pageData[1].head
        title  == IF Truthy(head) THEN TitleMatch(head[1]) ELSE None
        sets   == ~Truthy(asm[1].preContent) /\ title # None
    IN  /\ sets => /\ update # None
                   /\ ParsedTitle(TextOf(Base64Decode(update[1]))) = title
        /\ ~sets => update = pageData[1].headers["x-header-updates"]

\* C7 witness: a partial response for a head with <title>Home</title> carries the
\* base64 of {"title":"Home"}.
C7_Witness ==
  /\ asm # None
  /\ result # None
  /\ asm[1].partialContent
  /\ pageData[1].head = Some("<title>Home</title>")
  /\ result[1].headers["x-header-updates"] = Some("eyJ0aXRsZSI6IkhvbWUifQ==")

-----------------------------------------------------------------------------
(* The request loop (checked under SpecLive) *)

\* C9 as stated: a request the listener has accepted while the handling of another
\* request is stalled is still eventually responded to.
C9_Original ==
  \A i \in Slots : (pc = "stalled" /\ status[i] = "queued") ~> (status[i] = "done")

\* C9 amended: requests are handled strictly one at a time in arrival order: the
\* loop takes a request only when the handling of every earlier request has
\* completed.  So when the handling of a request stalls forever, no request
\* accepted after it is taken from the listener or responded to.
C9_OneAtATime ==
  \A i, j \in Slots :
    (i < j /\ status[j] \in {"active", "stalled", "done"}) => status[i] = "done"

\* C9 witness: a request's handling is stalled while a later request waits.
C9_Witness ==
  /\ pc = "stalled"
  /\ \E j \in Slots : j > cur /\ status[j] = "queued"

=============================================================================
